---- MODULE Spec2Model ----
(***************************************************************************)
(* Model of cutter.c: open a media container, select the first decodable   *)
(* video stream, decode its packets and write every decoded frame as a     *)
(* PNG file, then release the resources.                                   *)
(*                                                                         *)
(* The program is sequential: pc is the position of main (and of           *)
(* decode_packet / save_frame_to_png while they run).  The libav* and      *)
(* libpng calls are modelled by their documented outcomes, chosen          *)
(* nondeterministically where the outcome depends on the input data or on  *)
(* the environment.                                                        *)
(***************************************************************************)
EXTENDS Integers, Sequences, FiniteSets, TLC

\* ---------------------------------------------------------------- bounds
\* Largest number of streams of a container (general specification).
MaxStreams == 2
\* Largest number of packets of the selected video stream (general specification).
MaxVideoPkts == 2
\* Largest number of packets of the selected video stream (long runs).
MaxLongVideoPkts == 15
\* Largest number of packets of the other streams.
MaxOtherPkts == 2
\* Largest number of frames the decoder may hold back (reorder delay).
MaxDelay == 1
\* Largest frame number of a file left in output/ by an earlier run.
MaxOldFile == 1

\* ------------------------------------------------------ program constants
IMAGES_TOTAL == 10
AVERROR_EAGAIN == -11
AVERROR_EOF == -541478725
AVERROR_INVALIDDATA == -1094995529
AVERROR_ENOMEM == -12
\* Exit status of a process killed by SIGSEGV (128 + 11), as the shell reports it.
STATUS_SIGSEGV == 139

VARIABLES
    pc,                  \* position of the program
    argc,                \* number of command-line words
    streams,             \* format_context->streams, indexed from 0
    vleft,               \* packets of the decodable video stream not read yet
    oleft,               \* packets of the other streams not read yet
    fs,                  \* files of the output directory: name -> content
    format_context,      \* "NULL", "allocated", "open", "closed"
    i,                   \* index of the stream-selection loop
    video_stream_index,
    codec_context,       \* "NULL", "allocated", "configured", "open", "freed"
    frame_number,        \* codec_context->frame_number
    held,                \* frames submitted to the decoder and not yet returned
    input_frame,         \* "NULL", "empty", "data", "freed"
    input_packet,        \* [state: "NULL" | "blank" | "ref" | "freed", stream_index]
    ret,                 \* main's ret
    counter,             \* main's counter
    dec_ret,             \* decode_packet's ret
    sws_ctx,             \* decode_packet's sws_ctx: "NULL" or "ctx"
    rgb_frame,           \* decode_packet's rgb_frame: "NULL", "allocated", "buffer", "freed"
    heap,                \* live objects: [sws, rgb, pktbuf |-> number not yet released]
    exit_status,         \* status of the process once pc = "done"
    err,                 \* the error the run reported last ("none" if none)
    hist                 \* what the run did: [sent, sent_idx, written, discards, reads, closes, old,
                         \*   pkts, unrefs, released, burst, frees]

vars == <<pc, argc, streams, vleft, oleft, fs, format_context, i, video_stream_index,
          codec_context, frame_number, held, input_frame, input_packet, ret, counter,
          dec_ret, sws_ctx, rgb_frame, heap, exit_status, err, hist>>

\* ------------------------------------------------------------ pure parts

StreamDescriptor == [codec_type : {"VIDEO", "AUDIO", "OTHER"}, has_decoder : BOOLEAN]

nb_streams == Cardinality(DOMAIN streams)

\* avcodec_find_decoder(codec_id) != NULL
FindDecoder(s) == s.has_decoder

\* The body of the stream loop for stream s at index idx: the new video_stream_index.
SelectStepAlways(s, idx, vsi) ==
    IF ~FindDecoder(s) THEN vsi
    ELSE IF s.codec_type = "VIDEO" THEN idx
    ELSE vsi

SelectStep(s, idx, vsi) ==
    IF ~FindDecoder(s) THEN vsi
    ELSE IF s.codec_type = "VIDEO" THEN (IF vsi = -1 THEN idx ELSE vsi)
    ELSE vsi

\* "%d" of a non-negative int, as a sequence of characters.
DigitChar(d) == <<"0", "1", "2", "3", "4", "5", "6", "7", "8", "9">>[d + 1]

RECURSIVE Decimal(_)
Decimal(n) == IF n < 10 THEN <<DigitChar(n)>> ELSE Decimal(n \div 10) \o <<DigitChar(n % 10)>>

\* snprintf(frame_filename, 1024, "output/%s-%d.png", "frame", n)
FrameFilenameLastDigit(n) == <<"output/", "frame", "-">> \o <<DigitChar(n % 10)>> \o <<".png">>

FrameFilename(n) == <<"output/", "frame", "-">> \o Decimal(n) \o <<".png">>

\* The status the parent process sees when main returns r.
ExitStatus(r) == r % 256

\* input_packet->stream_index == video_stream_index
IsVideoPacketAny(pkt, vsi) == pkt.stream_index >= 0

IsVideoPacket(pkt, vsi) == pkt.stream_index = vsi

\* Contents of a file.
OldContent == [kind |-> "old", frame |-> 0]
EmptyContent == [kind |-> "empty", frame |-> 0]
PartialContent(n) == [kind |-> "partial", frame |-> n]
PngContent(n) == [kind |-> "png", frame |-> n]

\* fopen(filename, "wb"): the file is created, or truncated when it exists.
FopenWb(files, name) ==
    [f \in DOMAIN files \cup {name} |-> IF f = name THEN EmptyContent ELSE files[f]]

WriteFile(files, name, content) == [files EXCEPT ![name] = content]

\* The outcomes of save_frame_to_png.
SaveOutcomes == {"ok", "fopen_fail", "png_struct_fail", "info_struct_fail", "write_error"}

\* The files after save_frame_to_png(frame n, name) with outcome o.
SaveFilesExclusive(files, name, n, o) ==
    IF o = "fopen_fail" \/ name \in DOMAIN files THEN files
    ELSE [f \in DOMAIN files \cup {name} |->
            IF f # name THEN files[f]
            ELSE IF o \in {"png_struct_fail", "info_struct_fail"} THEN EmptyContent
            ELSE IF o = "write_error" THEN PartialContent(n)
            ELSE PngContent(n)]

SaveFiles(files, name, n, o) ==
    IF o = "fopen_fail" THEN files
    ELSE IF o \in {"png_struct_fail", "info_struct_fail"} THEN FopenWb(files, name)
    ELSE IF o = "write_error" THEN WriteFile(FopenWb(files, name), name, PartialContent(n))
    ELSE WriteFile(FopenWb(files, name), name, PngContent(n))

\* The outcomes avcodec_receive_frame can have with h frames held by the decoder:
\* 0 (a frame), EAGAIN / EOF (no frame now), or a decode error.
ReceiveOutcomes(h) ==
    (IF h > 0 THEN {0} ELSE {})
    \cup (IF h <= MaxDelay THEN {AVERROR_EAGAIN, AVERROR_EOF} ELSE {})
    \cup {AVERROR_INVALIDDATA}

BlankPacket == [state |-> "blank", stream_index |-> -1]

\* The indexes the next packet of the container can carry: vleft packets of the
\* stream main decodes are left, and oleft packets of the other streams.
PacketIndexes ==
    {j \in DOMAIN streams :
        IF j = video_stream_index THEN vleft > 0 ELSE oleft > 0}

\* ------------------------------------------------------------ initial state

Layouts == UNION {[0 .. (n - 1) -> StreamDescriptor] : n \in 0 .. MaxStreams}

OldFiles ==
    {<<>>} \cup {[f \in {FrameFilename(n)} |-> OldContent] : n \in 1 .. MaxOldFile}

InitProgram ==
    /\ pc = "check_args"
    /\ format_context = "NULL"
    /\ i = 0
    /\ video_stream_index = -1
    /\ codec_context = "NULL"
    /\ frame_number = 0
    /\ held = 0
    /\ input_frame = "NULL"
    /\ input_packet = [state |-> "NULL", stream_index |-> -1]
    /\ ret = 0
    /\ counter = 0
    /\ dec_ret = 0
    /\ sws_ctx = "NULL"
    /\ rgb_frame = "NULL"
    /\ heap = [sws |-> 0, rgb |-> 0, pktbuf |-> 0]
    /\ exit_status = 0
    /\ err = "none"
    /\ hist = [sent |-> 0, sent_idx |-> {}, written |-> <<>>, discards |-> 0,
               reads |-> 0, closes |-> 0, old |-> DOMAIN fs,
               pkts |-> 0, unrefs |-> 0, released |-> 0, burst |-> 0, frees |-> 0]

\* The input: the command line, the container and the output directory.
InitInput(layouts, maxVideo) ==
    /\ argc \in {1, 2}
    /\ streams \in (IF argc = 1 THEN {<<>>} ELSE layouts)
    /\ vleft \in (IF nb_streams = 0 THEN {0} ELSE 0 .. maxVideo)
    /\ oleft \in (IF nb_streams < 2 THEN {0} ELSE 0 .. MaxOtherPkts)
    /\ fs \in OldFiles

Init == InitInput(Layouts, MaxVideoPkts) /\ InitProgram

\* The layout of the example: audio at index 0, video at index 1.
ExampleLayout ==
    [j \in 0 .. 1 |-> IF j = 0 THEN [codec_type |-> "AUDIO", has_decoder |-> TRUE]
                               ELSE [codec_type |-> "VIDEO", has_decoder |-> TRUE]]

InitLong == InitInput({ExampleLayout}, MaxLongVideoPkts) /\ InitProgram

\* ------------------------------------------------------------ actions

\* return r from main without teardown.
Return(r, e) ==
    /\ pc' = "done"
    /\ exit_status' = ExitStatus(r)
    /\ err' = e

\* cutter.c 39-42
CheckArgs ==
    /\ pc = "check_args"
    /\ IF argc < 2
       THEN Return(-1, "Usage")
       ELSE pc' = "alloc_format" /\ UNCHANGED <<exit_status, err>>
    /\ UNCHANGED <<argc, streams, vleft, oleft, fs, format_context, i, video_stream_index,
                   codec_context, frame_number, held, input_frame, input_packet, ret,
                   counter, dec_ret, sws_ctx, rgb_frame, heap, hist>>

\* cutter.c 49-53
AllocFormatContext ==
    /\ pc = "alloc_format"
    /\ \E ok \in BOOLEAN :
        IF ok
        THEN /\ format_context' = "allocated"
             /\ pc' = "open_input"
             /\ UNCHANGED <<exit_status, err>>
        ELSE /\ Return(-1, "FormatAllocFailed")
             /\ UNCHANGED format_context
    /\ UNCHANGED <<argc, streams, vleft, oleft, fs, i, video_stream_index,
                   codec_context, frame_number, held, input_frame, input_packet, ret,
                   counter, dec_ret, sws_ctx, rgb_frame, heap, hist>>

\* cutter.c 63-66; on failure avformat_open_input frees the context it was given.
OpenInput ==
    /\ pc = "open_input"
    /\ \E ok \in BOOLEAN :
        IF ok
        THEN /\ format_context' = "open"
             /\ pc' = "find_stream_info"
             /\ UNCHANGED <<exit_status, err>>
        ELSE /\ format_context' = "NULL"
             /\ Return(-1, "OpenFailed")
    /\ UNCHANGED <<argc, streams, vleft, oleft, fs, i, video_stream_index,
                   codec_context, frame_number, held, input_frame, input_packet, ret,
                   counter, dec_ret, sws_ctx, rgb_frame, heap, hist>>

\* cutter.c 82-94
FindStreamInfoIgnored ==
    /\ pc = "find_stream_info"
    /\ \E ok \in BOOLEAN :
        /\ pc' = "stream_loop"
        /\ err' = IF ok THEN err ELSE "ProbeFailed"
        /\ UNCHANGED exit_status
    /\ i' = 0
    /\ video_stream_index' = -1
    /\ UNCHANGED <<argc, streams, vleft, oleft, fs, format_context,
                   codec_context, frame_number, held, input_frame, input_packet, ret,
                   counter, dec_ret, sws_ctx, rgb_frame, heap, hist>>

FindStreamInfo ==
    /\ pc = "find_stream_info"
    /\ \E ok \in BOOLEAN :
        IF ok
        THEN /\ pc' = "stream_loop"
             /\ UNCHANGED <<exit_status, err>>
        ELSE Return(-1, "ProbeFailed")
    /\ i' = 0
    /\ video_stream_index' = -1
    /\ UNCHANGED <<argc, streams, vleft, oleft, fs, format_context,
                   codec_context, frame_number, held, input_frame, input_packet, ret,
                   counter, dec_ret, sws_ctx, rgb_frame, heap, hist>>

\* cutter.c 97-135: one iteration of the stream loop.
StreamLoop ==
    /\ pc = "stream_loop"
    /\ i < nb_streams
    /\ video_stream_index' = SelectStep(streams[i], i, video_stream_index)
    /\ i' = i + 1
    /\ UNCHANGED <<pc, argc, streams, vleft, oleft, fs, format_context,
                   codec_context, frame_number, held, input_frame, input_packet, ret,
                   counter, dec_ret, sws_ctx, rgb_frame, heap, exit_status, err, hist>>

\* cutter.c 97, 137-140: the loop ends; is there a video stream?
CheckVideoStreamUnchecked ==
    /\ pc = "stream_loop"
    /\ ~(i < nb_streams)
    /\ pc' = "alloc_codec"
    /\ UNCHANGED <<argc, streams, vleft, oleft, fs, format_context, i, video_stream_index,
                   codec_context, frame_number, held, input_frame, input_packet, ret,
                   counter, dec_ret, sws_ctx, rgb_frame, heap, exit_status, err, hist>>

CheckVideoStream ==
    /\ pc = "stream_loop"
    /\ ~(i < nb_streams)
    /\ IF video_stream_index = -1
       THEN Return(-1, "NoVideoStream")
       ELSE pc' = "alloc_codec" /\ UNCHANGED <<exit_status, err>>
    /\ UNCHANGED <<argc, streams, vleft, oleft, fs, format_context, i, video_stream_index,
                   codec_context, frame_number, held, input_frame, input_packet, ret,
                   counter, dec_ret, sws_ctx, rgb_frame, heap, hist>>

\* cutter.c 143-147
AllocCodecContext ==
    /\ pc = "alloc_codec"
    /\ \E ok \in BOOLEAN :
        IF ok
        THEN /\ codec_context' = "allocated"
             /\ pc' = "params_to_context"
             /\ UNCHANGED <<exit_status, err>>
        ELSE /\ Return(-1, "DecoderAllocFailed")
             /\ UNCHANGED codec_context
    /\ UNCHANGED <<argc, streams, vleft, oleft, fs, format_context, i, video_stream_index,
                   frame_number, held, input_frame, input_packet, ret,
                   counter, dec_ret, sws_ctx, rgb_frame, heap, hist>>

\* cutter.c 151-154
ParametersToContext ==
    /\ pc = "params_to_context"
    /\ \E ok \in BOOLEAN :
        IF ok
        THEN /\ codec_context' = "configured"
             /\ pc' = "open_codec"
             /\ UNCHANGED <<exit_status, err>>
        ELSE /\ Return(-1, "ParametersCopyFailed")
             /\ UNCHANGED codec_context
    /\ UNCHANGED <<argc, streams, vleft, oleft, fs, format_context, i, video_stream_index,
                   frame_number, held, input_frame, input_packet, ret,
                   counter, dec_ret, sws_ctx, rgb_frame, heap, hist>>

\* cutter.c 158-161
OpenCodec ==
    /\ pc = "open_codec"
    /\ \E ok \in BOOLEAN :
        IF ok
        THEN /\ codec_context' = "open"
             /\ pc' = "alloc_frame"
             /\ UNCHANGED <<exit_status, err>>
        ELSE /\ Return(-1, "DecoderOpenFailed")
             /\ UNCHANGED codec_context
    /\ UNCHANGED <<argc, streams, vleft, oleft, fs, format_context, i, video_stream_index,
                   frame_number, held, input_frame, input_packet, ret,
                   counter, dec_ret, sws_ctx, rgb_frame, heap, hist>>

\* cutter.c 164-168
AllocFrame ==
    /\ pc = "alloc_frame"
    /\ \E ok \in BOOLEAN :
        IF ok
        THEN /\ input_frame' = "empty"
             /\ pc' = "alloc_packet"
             /\ UNCHANGED <<exit_status, err>>
        ELSE /\ Return(-1, "FrameAllocFailed")
             /\ UNCHANGED input_frame
    /\ UNCHANGED <<argc, streams, vleft, oleft, fs, format_context, i, video_stream_index,
                   codec_context, frame_number, held, input_packet, ret,
                   counter, dec_ret, sws_ctx, rgb_frame, heap, hist>>

\* cutter.c 171-178
AllocPacket ==
    /\ pc = "alloc_packet"
    /\ \E ok \in BOOLEAN :
        IF ok
        THEN /\ input_packet' = BlankPacket
             /\ pc' = "read_frame"
             /\ UNCHANGED <<exit_status, err>>
        ELSE /\ Return(-1, "PacketAllocFailed")
             /\ UNCHANGED input_packet
    /\ ret' = 0
    /\ counter' = 0
    /\ UNCHANGED <<argc, streams, vleft, oleft, fs, format_context, i, video_stream_index,
                   codec_context, frame_number, held, input_frame,
                   dec_ret, sws_ctx, rgb_frame, heap, hist>>

\* cutter.c 182: av_read_frame fills the packet with the next packet of the container,
\* or leaves it blank and returns a negative value at the end of the input.
ReadFrame ==
    /\ pc = "read_frame"
    /\ IF PacketIndexes # {}
       THEN \E idx \in PacketIndexes :
            /\ input_packet' = [state |-> "ref", stream_index |-> idx]
            /\ heap' = [heap EXCEPT !.pktbuf = @ + 1]
            /\ vleft' = IF idx = video_stream_index THEN vleft - 1 ELSE vleft
            /\ oleft' = IF idx = video_stream_index THEN oleft ELSE oleft - 1
            /\ pc' = "is_video"
            /\ hist' = [hist EXCEPT !.reads = @ + 1, !.pkts = @ + 1]
       ELSE /\ input_packet' = BlankPacket
            /\ pc' = "teardown"
            /\ hist' = [hist EXCEPT !.reads = @ + 1]
            /\ UNCHANGED <<heap, vleft, oleft>>
    /\ UNCHANGED <<argc, streams, fs, format_context, i, video_stream_index,
                   codec_context, frame_number, held, input_frame, ret,
                   counter, dec_ret, sws_ctx, rgb_frame, exit_status, err>>

\* cutter.c 184: is the packet one of the selected video stream?
IsVideo ==
    /\ pc = "is_video"
    /\ IF IsVideoPacket(input_packet, video_stream_index)
       THEN /\ pc' = "send_packet"
            /\ hist' = [hist EXCEPT !.discards = 0]
       ELSE /\ pc' = "packet_unref"
            /\ hist' = [hist EXCEPT !.discards = @ + 1]
    /\ UNCHANGED <<argc, streams, vleft, oleft, fs, format_context, i, video_stream_index,
                   codec_context, frame_number, held, input_frame, input_packet, ret,
                   counter, dec_ret, sws_ctx, rgb_frame, heap, exit_status, err>>

\* decode_packet returns r to main (cutter.c 187).
DecodeReturn(r, e) ==
    /\ ret' = r
    /\ err' = e
    /\ pc' = "check_ret"

\* cutter.c 225-230
SendPacket ==
    /\ pc = "send_packet"
    /\ hist' = [hist EXCEPT !.sent = @ + 1,
                            !.sent_idx = @ \cup {input_packet.stream_index},
                            !.burst = 0]
    /\ \E r \in {0, AVERROR_INVALIDDATA} :
        /\ dec_ret' = r
        /\ IF r < 0
           THEN /\ DecodeReturn(r, "DecodeRejected")
                /\ UNCHANGED held
           ELSE /\ held' = held + 1
                /\ pc' = "receive_frame"
                /\ UNCHANGED <<ret, err>>
    /\ UNCHANGED <<argc, streams, vleft, oleft, fs, format_context, i, video_stream_index,
                   codec_context, frame_number, input_frame, input_packet,
                   counter, sws_ctx, rgb_frame, heap, exit_status>>

\* cutter.c 232-241 (and 303): the head of the receive loop.
ReceiveFrameRetries ==
    /\ pc = "receive_frame"
    /\ \E r \in ReceiveOutcomes(held) :
        /\ dec_ret' = r
        /\ IF r = AVERROR_EAGAIN \/ r = AVERROR_EOF
           THEN /\ input_frame' = "empty"
                /\ UNCHANGED <<pc, ret, err, held, frame_number, hist>>
           ELSE IF r < 0
           THEN /\ DecodeReturn(r, "DecodeFailed")
                /\ input_frame' = "empty"
                /\ UNCHANGED <<held, frame_number, hist>>
           ELSE /\ held' = held - 1
                /\ frame_number' = frame_number + 1
                /\ input_frame' = "data"
                /\ hist' = [hist EXCEPT !.burst = @ + 1]
                /\ pc' = "prepare_rgb"
                /\ UNCHANGED <<ret, err>>
    /\ UNCHANGED <<argc, streams, vleft, oleft, fs, format_context, i, video_stream_index,
                   codec_context, input_packet, counter, sws_ctx, rgb_frame, heap,
                   exit_status>>

ReceiveFrame ==
    /\ pc = "receive_frame"
    /\ dec_ret >= 0
    /\ \E r \in ReceiveOutcomes(held) :
        /\ dec_ret' = r
        /\ IF r = AVERROR_EAGAIN \/ r = AVERROR_EOF
           THEN /\ DecodeReturn(0, err)
                /\ input_frame' = "empty"
                /\ UNCHANGED <<held, frame_number, hist>>
           ELSE IF r < 0
           THEN /\ DecodeReturn(r, "DecodeFailed")
                /\ input_frame' = "empty"
                /\ UNCHANGED <<held, frame_number, hist>>
           ELSE /\ held' = held - 1
                /\ frame_number' = frame_number + 1
                /\ input_frame' = "data"
                /\ hist' = [hist EXCEPT !.burst = @ + 1]
                /\ pc' = "prepare_rgb"
                /\ UNCHANGED <<ret, err>>
    /\ UNCHANGED <<argc, streams, vleft, oleft, fs, format_context, i, video_stream_index,
                   codec_context, input_packet, counter, sws_ctx, rgb_frame, heap,
                   exit_status>>

\* The process dies of a NULL dereference: nothing more runs.
Crash ==
    /\ pc' = "done"
    /\ exit_status' = STATUS_SIGSEGV
    /\ err' = "Crash"

\* cutter.c 266-283: the conversion context and the RGB frame are created.
\* av_frame_alloc's result is used unchecked: NULL is dereferenced at line 275.
PrepareRgb ==
    /\ pc = "prepare_rgb"
    /\ \E sws_ok \in BOOLEAN, alloc_ok \in BOOLEAN, buf \in {0, AVERROR_ENOMEM} :
        /\ sws_ctx' = IF sws_ok THEN "ctx" ELSE "NULL"
        /\ IF ~alloc_ok
           THEN /\ Crash
                /\ rgb_frame' = "NULL"
                /\ heap' = [heap EXCEPT !.sws = @ + (IF sws_ok THEN 1 ELSE 0)]
                /\ UNCHANGED <<ret, dec_ret>>
           ELSE /\ heap' = [heap EXCEPT !.sws = @ + (IF sws_ok THEN 1 ELSE 0),
                                        !.rgb = @ + 1]
                /\ IF buf < 0
                   THEN /\ rgb_frame' = "allocated"
                        /\ DecodeReturn(buf, "ConversionFailed")
                        /\ UNCHANGED <<dec_ret, exit_status>>
                   ELSE /\ rgb_frame' = "buffer"
                        /\ pc' = "sws_scale"
                        /\ UNCHANGED <<ret, err, dec_ret, exit_status>>
    /\ UNCHANGED <<argc, streams, vleft, oleft, fs, format_context, i, video_stream_index,
                   codec_context, frame_number, held, input_frame, input_packet,
                   counter, hist>>

\* cutter.c 286-290: sws_scale dereferences its context, which is not checked for NULL.
SwsScale ==
    /\ pc = "sws_scale"
    /\ IF sws_ctx = "NULL"
       THEN Crash /\ UNCHANGED ret
       ELSE \E r \in {1, AVERROR_INVALIDDATA} :
            IF r < 0
            THEN DecodeReturn(r, "ConversionFailed") /\ UNCHANGED exit_status
            ELSE pc' = "save_png" /\ UNCHANGED <<ret, err, exit_status>>
    /\ UNCHANGED <<argc, streams, vleft, oleft, fs, format_context, i, video_stream_index,
                   codec_context, frame_number, held, input_frame, input_packet,
                   counter, dec_ret, sws_ctx, rgb_frame, heap, hist>>

\* cutter.c 293-297 with save_frame_to_png, 307-367.
SavePng ==
    /\ pc = "save_png"
    /\ \E o \in SaveOutcomes :
        /\ fs' = SaveFiles(fs, FrameFilename(frame_number), frame_number, o)
        /\ IF o = "ok"
           THEN /\ hist' = [hist EXCEPT !.written = Append(@, FrameFilename(frame_number))]
                /\ pc' = "free_rgb"
                /\ UNCHANGED <<ret, err>>
           ELSE /\ DecodeReturn(-1, IF o = "fopen_fail" THEN "IoFailed" ELSE "EncodeFailed")
                /\ UNCHANGED hist
    /\ UNCHANGED <<argc, streams, vleft, oleft, format_context, i, video_stream_index,
                   codec_context, frame_number, held, input_frame, input_packet,
                   counter, dec_ret, sws_ctx, rgb_frame, heap, exit_status>>

\* cutter.c 299-301: the RGB frame is freed and the receive loop goes on.
FreeRgbReturns ==
    /\ pc = "free_rgb"
    /\ rgb_frame' = "freed"
    /\ heap' = [heap EXCEPT !.rgb = @ - 1]
    /\ DecodeReturn(0, err)
    /\ UNCHANGED <<argc, streams, vleft, oleft, fs, format_context, i, video_stream_index,
                   codec_context, frame_number, held, input_frame, input_packet,
                   counter, dec_ret, sws_ctx, exit_status, hist>>

FreeRgb ==
    /\ pc = "free_rgb"
    /\ rgb_frame' = "freed"
    /\ heap' = [heap EXCEPT !.rgb = @ - 1]
    /\ pc' = "receive_frame"
    /\ UNCHANGED <<argc, streams, vleft, oleft, fs, format_context, i, video_stream_index,
                   codec_context, frame_number, held, input_frame, input_packet, ret,
                   counter, dec_ret, sws_ctx, exit_status, err, hist>>

\* cutter.c 188-193
CheckRetTestsAfterIncrement ==
    /\ pc = "check_ret"
    /\ IF ret < 0
       THEN pc' = "teardown" /\ UNCHANGED counter
       ELSE /\ counter' = counter + 1
            /\ pc' = IF counter + 1 > IMAGES_TOTAL THEN "teardown" ELSE "packet_unref"
    /\ UNCHANGED <<argc, streams, vleft, oleft, fs, format_context, i, video_stream_index,
                   codec_context, frame_number, held, input_frame, input_packet, ret,
                   dec_ret, sws_ctx, rgb_frame, heap, exit_status, err, hist>>

CheckRetReturnsOnError ==
    /\ pc = "check_ret"
    /\ IF ret < 0
       THEN /\ pc' = "done"
            /\ exit_status' = ExitStatus(ret)
            /\ UNCHANGED counter
       ELSE IF counter > IMAGES_TOTAL
       THEN pc' = "teardown" /\ UNCHANGED <<counter, exit_status>>
       ELSE pc' = "packet_unref" /\ counter' = counter + 1 /\ UNCHANGED exit_status
    /\ UNCHANGED <<argc, streams, vleft, oleft, fs, format_context, i, video_stream_index,
                   codec_context, frame_number, held, input_frame, input_packet, ret,
                   dec_ret, sws_ctx, rgb_frame, heap, err, hist>>

CheckRetIgnoresError ==
    /\ pc = "check_ret"
    /\ IF counter > IMAGES_TOTAL
       THEN pc' = "teardown" /\ UNCHANGED counter
       ELSE pc' = "packet_unref" /\ counter' = counter + 1
    /\ UNCHANGED <<argc, streams, vleft, oleft, fs, format_context, i, video_stream_index,
                   codec_context, frame_number, held, input_frame, input_packet, ret,
                   dec_ret, sws_ctx, rgb_frame, heap, exit_status, err, hist>>

CheckRet ==
    /\ pc = "check_ret"
    /\ IF ret < 0
       THEN pc' = "teardown" /\ UNCHANGED counter
       ELSE IF counter > IMAGES_TOTAL
       THEN pc' = "teardown" /\ UNCHANGED counter
       ELSE pc' = "packet_unref" /\ counter' = counter + 1
    /\ UNCHANGED <<argc, streams, vleft, oleft, fs, format_context, i, video_stream_index,
                   codec_context, frame_number, held, input_frame, input_packet, ret,
                   dec_ret, sws_ctx, rgb_frame, heap, exit_status, err, hist>>

\* av_packet_unref: the packet's buffer is released and the packet is blank again.
UnrefKeeps(pkt) == pkt

Unref(pkt) == BlankPacket

\* The number of buffers a packet references.
Refs(pkt) == IF pkt.state = "ref" THEN 1 ELSE 0

\* cutter.c 196
PacketUnref ==
    /\ pc = "packet_unref"
    /\ input_packet' = Unref(input_packet)
    /\ heap' = [heap EXCEPT !.pktbuf = @ - (Refs(input_packet) - Refs(input_packet'))]
    /\ hist' = [hist EXCEPT !.unrefs = @ + (Refs(input_packet) - Refs(input_packet')),
                            !.released = @ + (Refs(input_packet) - Refs(input_packet'))]
    /\ pc' = "read_frame"
    /\ UNCHANGED <<argc, streams, vleft, oleft, fs, format_context, i, video_stream_index,
                   codec_context, frame_number, held, input_frame, ret,
                   counter, dec_ret, sws_ctx, rgb_frame, exit_status, err>>

\* cutter.c 199-207: the resources are released and main returns 0.
TeardownDrains ==
    /\ pc = "teardown"
    /\ format_context' = "closed"
    /\ hist' = [hist EXCEPT !.closes = @ + 1,
                            !.released = @ + Refs(input_packet),
                            !.frees = @ + 3,
                            !.sent = @ + 1]
    /\ input_packet' = [state |-> "freed", stream_index |-> -1]
    /\ heap' = [heap EXCEPT !.pktbuf = @ - Refs(input_packet)]
    /\ input_frame' = "freed"
    /\ codec_context' = "freed"
    /\ held' = 0
    /\ frame_number' = frame_number + held
    /\ pc' = "done"
    /\ exit_status' = ExitStatus(0)
    /\ UNCHANGED <<argc, streams, vleft, oleft, fs, i, video_stream_index,
                   ret, counter, dec_ret, sws_ctx, rgb_frame, err>>

TeardownKeepsPacket ==
    /\ pc = "teardown"
    /\ format_context' = "closed"
    /\ hist' = [hist EXCEPT !.closes = @ + 1, !.frees = @ + 3]
    /\ input_packet' = [state |-> "freed", stream_index |-> -1]
    /\ input_frame' = "freed"
    /\ codec_context' = "freed"
    /\ pc' = "done"
    /\ exit_status' = ExitStatus(0)
    /\ UNCHANGED <<argc, streams, vleft, oleft, fs, i, video_stream_index, heap,
                   frame_number, held, ret, counter, dec_ret, sws_ctx, rgb_frame, err>>

Teardown ==
    /\ pc = "teardown"
    /\ format_context' = "closed"
    /\ hist' = [hist EXCEPT !.closes = @ + 1,
                            !.released = @ + Refs(input_packet),
                            !.frees = @ + 3]
    /\ input_packet' = [state |-> "freed", stream_index |-> -1]
    /\ heap' = [heap EXCEPT !.pktbuf = @ - Refs(input_packet)]
    /\ input_frame' = "freed"
    /\ codec_context' = "freed"
    /\ pc' = "done"
    /\ exit_status' = ExitStatus(0)
    /\ UNCHANGED <<argc, streams, vleft, oleft, fs, i, video_stream_index,
                   frame_number, held, ret, counter, dec_ret, sws_ctx, rgb_frame, err>>

Next ==
    \/ CheckArgs
    \/ AllocFormatContext
    \/ OpenInput
    \/ FindStreamInfo
    \/ StreamLoop
    \/ CheckVideoStream
    \/ AllocCodecContext
    \/ ParametersToContext
    \/ OpenCodec
    \/ AllocFrame
    \/ AllocPacket
    \/ ReadFrame
    \/ IsVideo
    \/ SendPacket
    \/ ReceiveFrame
    \/ PrepareRgb
    \/ SwsScale
    \/ SavePng
    \/ FreeRgb
    \/ CheckRet
    \/ PacketUnref
    \/ Teardown

\* ------------------------------------------------------------ properties

\* The lowest-index stream that is video and has a decoder, -1 if there is none.
FirstDecodableVideo(ss) ==
    LET Q == {j \in DOMAIN ss : ss[j].codec_type = "VIDEO" /\ ss[j].has_decoder}
    IN  IF Q = {} THEN -1 ELSE CHOOSE j \in Q : \A k \in Q : j <= k

\* The first n streams of ss.
Prefix(ss, n) == [j \in 0 .. (n - 1) |-> ss[j]]

\* The errors that end the run before the streams are examined.
EarlyErrors == {"Usage", "FormatAllocFailed", "OpenFailed", "ProbeFailed"}

\* The stream loop has run to its end.
SelectionDone ==
    /\ pc \notin {"check_args", "alloc_format", "open_input", "find_stream_info", "stream_loop"}
    /\ err \notin EarlyErrors

\* The names of the files written so far.
WrittenNames == {hist.written[k] : k \in 1 .. Len(hist.written)}

\* C1: a run without error over a container with a decodable video stream ends
\* with exit status 0 and has written at most IMAGES_TOTAL + 1 files.
C1_AtMostLimitPlusOneFiles ==
    err = "none" =>
        /\ Len(hist.written) <= IMAGES_TOTAL + 1
        /\ pc = "done" => exit_status = 0

\* C2: audio at index 0, video at index 1, 15 video packets that each decode to one
\* frame at once: the run writes exactly frame-1.png .. frame-11.png and exits with 0.
C2_ExampleWritesElevenFiles ==
    (/\ pc = "done"
     /\ err = "none"
     /\ streams = ExampleLayout
     /\ vleft + hist.sent = 15
     /\ held = 0)
    => /\ hist.written = [k \in 1 .. (IMAGES_TOTAL + 1) |-> FrameFilename(k)]
       /\ exit_status = 0

\* C3: the exit status is 0 exactly when the run reported no fatal error.
C3_ZeroStatusOnlyOnSuccess ==
    pc = "done" => ((exit_status = 0) <=> (err = "none"))

\* C4: at exit, once the container was opened, it has been closed exactly once and
\* every other resource acquired has been released.
C4_AllReleasedAtExit ==
    (pc = "done" /\ format_context \in {"open", "closed"}) =>
        /\ format_context = "closed"
        /\ hist.closes = 1
        /\ codec_context \in {"NULL", "freed"}
        /\ input_packet.state \in {"NULL", "freed"}
        /\ input_frame \in {"NULL", "freed"}
        /\ heap = [sws |-> 0, rgb |-> 0, pktbuf |-> 0]

\* C5: with no decodable video stream, no decoder is ever configured, no packet is
\* read, no file is written, and the run, unless it failed earlier, ends with
\* NoVideoStream and a non-zero status.
C5_NoVideoStreamFails ==
    FirstDecodableVideo(streams) = -1 =>
        /\ codec_context = "NULL"
        /\ hist.reads = 0
        /\ hist.sent = 0
        /\ hist.written = <<>>
        /\ DOMAIN fs = hist.old
        /\ pc \notin {"alloc_codec", "params_to_context", "open_codec", "alloc_frame",
                      "alloc_packet", "read_frame", "teardown"}
        /\ pc = "done" => exit_status # 0
        /\ (pc = "done" /\ err \notin EarlyErrors) => err = "NoVideoStream"

C5_Witness ==
    /\ pc = "done"
    /\ err = "NoVideoStream"
    /\ exit_status # 0
    /\ \E j \in DOMAIN streams : streams[j].codec_type = "VIDEO"

\* C6: once probing has failed the run is over with a non-zero status, and no stream
\* was selected, no decoder configured, no packet read or submitted, no frame
\* received and no file written.
C6_ProbeFailedBeforeDecode ==
    err = "ProbeFailed" =>
        /\ pc = "done"
        /\ exit_status # 0
        /\ video_stream_index = -1
        /\ codec_context = "NULL"
        /\ hist.reads = 0
        /\ hist.sent = 0
        /\ frame_number = 0
        /\ hist.written = <<>>
        /\ DOMAIN fs = hist.old

C6_Witness ==
    /\ err = "ProbeFailed"
    /\ pc = "done"
    /\ FirstDecodableVideo(streams) # -1
    /\ vleft > 0

\* C7: only packets of the selected stream are submitted to the decoder, and no
\* packet buffer is referenced when the next packet is read.
C7_DiscardedPacketsReleased ==
    /\ \A idx \in hist.sent_idx : idx = video_stream_index
    /\ pc = "send_packet" => input_packet.stream_index = video_stream_index
    /\ pc = "read_frame" => (heap.pktbuf = 0 /\ input_packet.state = "blank")

C7_Witness ==
    /\ pc = "read_frame"
    /\ hist.discards >= 2
    /\ heap.pktbuf = 0
    /\ hist.sent = 0

\* C8: the k-th file written is frame-k.png and holds the k-th frame received, and
\* no two files written have the same name.
C8_FileNamesCountFrames ==
    /\ \A k \in 1 .. Len(hist.written) : hist.written[k] = FrameFilename(k)
    /\ \A a, b \in 1 .. Len(hist.written) : a # b => hist.written[a] # hist.written[b]
    /\ Len(hist.written) <= frame_number
    /\ frame_number <= Len(hist.written) + 1
    /\ pc = "save_png" => frame_number = Len(hist.written) + 1

C8_Witness ==
    /\ Len(hist.written) = IMAGES_TOTAL + 1
    /\ hist.written[IMAGES_TOTAL + 1] = <<"output/", "frame", "-", "1", "1", ".png">>
    /\ hist.written[1] = <<"output/", "frame", "-", "1", ".png">>

\* C9, as stated: a file that was in the output directory before the run keeps
\* its content.
C9_NeverOverwrites ==
    \A f \in hist.old : f \in DOMAIN fs /\ fs[f] = OldContent

\* C9, amended: every successful save leaves exactly one file, at its path, holding
\* the frame just saved, whether or not a file was there before; a failed save
\* touches only the file at its path; every other file is as it was.
C9_SaveCreatesOrReplaces ==
    /\ \A k \in 1 .. Len(hist.written) :
          hist.written[k] \in DOMAIN fs /\ fs[hist.written[k]] = PngContent(k)
    /\ \A f \in DOMAIN fs \ WrittenNames :
          \/ f \in hist.old /\ fs[f] = OldContent
          \/ /\ f = FrameFilename(frame_number)
             /\ err \in {"EncodeFailed"}
             /\ fs[f] \in {EmptyContent, PartialContent(frame_number)}
    /\ hist.old \subseteq DOMAIN fs

C9_Witness ==
    \E k \in 1 .. Len(hist.written) :
        /\ hist.written[k] \in hist.old
        /\ fs[hist.written[k]] = PngContent(k)

\* C10: while the stream loop runs, the selection is the lowest-index decodable
\* video stream among the streams examined so far; after it, it is the lowest-index
\* decodable video stream of the container, and NoVideoStream is reported exactly
\* when there is none.
C10_FirstDecodableVideoSelected ==
    /\ pc = "stream_loop" =>
          video_stream_index = FirstDecodableVideo(Prefix(streams, i))
    /\ SelectionDone =>
          /\ video_stream_index = FirstDecodableVideo(streams)
          /\ (err = "NoVideoStream") <=> (FirstDecodableVideo(streams) = -1)
          /\ video_stream_index # -1 =>
                /\ streams[video_stream_index].codec_type = "VIDEO"
                /\ streams[video_stream_index].has_decoder

C10_Witness ==
    /\ SelectionDone
    /\ nb_streams = 2
    /\ video_stream_index = 0
    /\ streams[1].codec_type = "VIDEO"
    /\ streams[1].has_decoder

\* C11: whenever the next packet is about to be read, counter is the number of
\* image files written so far.
C11_CounterCountsFiles ==
    pc = "read_frame" => counter = Len(hist.written)

\* C12: when main is back from decode_packet without error, the last receive
\* returned EAGAIN or EOF, and every frame received so far, those of the last packet
\* included, has been written to its own file.
C12_ReceiveUntilDrained ==
    (/\ hist.sent > 0
     /\ \/ pc \in {"read_frame", "is_video", "packet_unref"}
        \/ pc = "check_ret" /\ ret >= 0)
    => /\ dec_ret \in {AVERROR_EAGAIN, AVERROR_EOF}
       /\ Len(hist.written) = frame_number
       /\ hist.burst <= frame_number
       /\ \A k \in (frame_number - hist.burst + 1) .. frame_number :
             /\ hist.written[k] \in DOMAIN fs
             /\ fs[hist.written[k]] = PngContent(k)

C12_Witness ==
    /\ pc = "check_ret"
    /\ ret >= 0
    /\ hist.burst = 2
    /\ Len(hist.written) = 2
    /\ dec_ret = AVERROR_EAGAIN

\* The errors of the decoder.
DecodeErrors == {"DecodeRejected", "DecodeFailed"}

\* A step taken after a decode error was reported reads, submits, receives and
\* writes nothing, and leads to teardown or out of it.
AfterDecodeError ==
    err \in DecodeErrors =>
        /\ pc \in {"check_ret", "teardown"}
        /\ pc' \in {"teardown", "done"}
        /\ hist'.reads = hist.reads
        /\ hist'.sent = hist.sent
        /\ hist'.written = hist.written
        /\ frame_number' = frame_number
        /\ fs' = fs
        /\ err' = err

\* C13: once a decode error was reported, no packet is read, submitted or received,
\* no file is written, and the only steps left are the one to teardown and teardown.
C13_DecodeErrorIsTerminal == [][AfterDecodeError]_vars

C13_Witness ==
    /\ pc = "done"
    /\ err = "DecodeFailed"
    /\ vleft > 0
    /\ hist.sent = 1
    /\ hist.reads = 1

\* C14: outside the lines that use it, no converted frame is allocated and not yet
\* freed: each one is released before the next frame is received and before
\* decode_packet returns.
C14_ConvertedFrameReleased ==
    pc \in {"receive_frame", "check_ret", "read_frame", "packet_unref", "teardown"}
        => heap.rgb = 0

\* C15, as stated: av_packet_unref at line 196 has run for every packet read by the
\* time the loop is left, whatever ended the loop.
C15_UnrefInEveryIteration ==
    pc = "teardown" => hist.unrefs = hist.pkts

\* C15, amended: av_packet_unref at line 196 has run for every packet read whenever
\* the next packet is read; when the loop is left, it has run for every packet but
\* the one of an iteration that broke out (decode error or limit), which is still
\* referenced then and is released by av_packet_free in teardown.
C15_UnrefUnlessBreak ==
    /\ pc = "read_frame" => hist.unrefs = hist.pkts
    /\ pc = "teardown" =>
          /\ hist.unrefs = hist.pkts - Refs(input_packet)
          /\ Refs(input_packet) = 1 <=> (ret < 0 \/ (counter > IMAGES_TOTAL /\ hist.sent > counter))
    /\ (pc = "done" /\ hist.closes = 1) => hist.released = hist.pkts

C15_Witness ==
    /\ pc = "done"
    /\ hist.closes = 1
    /\ ret >= 0
    /\ counter > IMAGES_TOTAL
    /\ hist.unrefs = hist.pkts - 1
    /\ hist.released = hist.pkts
    /\ hist.pkts > hist.sent

\* C16: when the run ends after the packet loop was entered, and not by a crash,
\* the container has been closed once and the packet, the frame and the decoder
\* context have each been freed once; nothing runs on the decoder or the container
\* after its release.
C16_TeardownAfterLoop ==
    /\ (pc = "done" /\ hist.reads > 0 /\ err # "Crash") =>
          /\ format_context = "closed"
          /\ hist.closes = 1
          /\ input_packet.state = "freed"
          /\ input_frame = "freed"
          /\ codec_context = "freed"
          /\ hist.frees = 3
          /\ heap.pktbuf = 0
    /\ (format_context = "closed" \/ codec_context = "freed") => pc = "done"
    /\ hist.closes <= 1
    /\ hist.frees \in {0, 3}

C16_Witness ==
    /\ pc = "done"
    /\ err = "EncodeFailed"
    /\ format_context = "closed"
    /\ codec_context = "freed"
    /\ hist.frees = 3

\* C17: every run reaches its exit.
C17_Terminates == <>(pc = "done")

C17_Witness ==
    /\ pc = "done"
    /\ err = "none"
    /\ hist.closes = 1
    /\ counter > IMAGES_TOTAL
    /\ vleft > 0

\* C18: at most IMAGES_TOTAL + 2 packets are submitted; the stop test sees the
\* packets decoded before the current one (the current one is already submitted),
\* a run that stops with video packets left and no error has submitted exactly
\* IMAGES_TOTAL + 2 packets, and no packet is read after that.
C18_AtMostLimitPlusTwoPackets ==
    /\ hist.sent <= IMAGES_TOTAL + 2
    /\ pc = "check_ret" => hist.sent = counter + 1
    /\ pc \in {"read_frame", "is_video", "send_packet"} => hist.sent = counter
    /\ (pc \in {"teardown", "done"} /\ hist.reads > 0 /\ err = "none" /\ vleft > 0) =>
          /\ hist.sent = IMAGES_TOTAL + 2
          /\ counter = IMAGES_TOTAL + 1
    /\ hist.sent = IMAGES_TOTAL + 2 => pc \notin {"read_frame", "is_video", "packet_unref"}

C18_Witness ==
    /\ pc = "done"
    /\ err = "none"
    /\ hist.sent = IMAGES_TOTAL + 2
    /\ hist.reads = hist.pkts
    /\ vleft > 0

\* A step taken once the packet loop is over submits nothing to the decoder,
\* receives no frame and writes no file.
AfterLoop ==
    pc \in {"teardown", "done"} =>
        /\ hist'.sent = hist.sent
        /\ frame_number' = frame_number
        /\ held' = held
        /\ hist'.written = hist.written
        /\ fs' = fs

\* C19: once the packet loop is over nothing is submitted to the decoder and no
\* frame is received: the frames the decoder still holds are never written.
C19_NeverDrains == [][AfterLoop]_vars

C19_Witness ==
    /\ pc = "done"
    /\ err = "none"
    /\ vleft = 0
    /\ oleft = 0
    /\ held > 0
    /\ codec_context = "freed"
    /\ Len(hist.written) < hist.sent

\* C20: the packet references a buffer exactly when one is live, no buffer is
\* released twice, and after teardown every buffer read has been released once.
C20_PacketBuffersReleasedOnce ==
    /\ heap.pktbuf = Refs(input_packet)
    /\ hist.released <= hist.pkts
    /\ heap.pktbuf = hist.pkts - hist.released
    /\ (pc = "done" /\ hist.closes = 1) =>
          /\ heap.pktbuf = 0
          /\ hist.released = hist.pkts
          /\ hist.released - hist.unrefs \in {0, 1}

C20_Witness ==
    /\ pc = "done"
    /\ hist.closes = 1
    /\ err = "DecodeRejected"
    /\ hist.pkts >= 2
    /\ hist.released = hist.pkts
    /\ hist.unrefs = hist.pkts - 1

Spec == Init /\ [][Next]_vars

SpecLong == InitLong /\ [][Next]_vars

\* The program is sequential and always takes its next step.
SpecLongFair == InitLong /\ [][Next]_vars /\ WF_vars(Next)

====
